---- MODULE Spec2Model ----
(***************************************************************************)
(* Model of ptbmod's admin guard (decorator/admins.py): the Admins         *)
(* decorator's wrapped() handler and the verify_anonymous_admin callback,  *)
(* sharing context.bot_data.                                               *)
(***************************************************************************)
EXTENDS Integers, Sequences, FiniteSets, TLC

\* ------------------------------------------------------------------ bounds
\* Number of clock ticks a pending challenge is meant to stay valid (the
\* "40 seconds" of the design, in abstract ticks).  The clock of an entry
\* is not counted further than this.
ChallengeTTL == 1
\* Most "Verify Admin" prompts that may be on screen for one message.
MaxPrompts == 1

\* --------------------------------------------------------------- constants
\* telegram.constants.ChatID.ANONYMOUS_ADMIN, the GroupAnonymousBot user id.
ANONYMOUS_ADMIN == 1087968824
\* context.bot.id of the running bot.
BotId == 99
\* Config.DEVS
DEVS == {7}

\* ------------------------------------------------------------------ inputs
\* An incoming update: a message (a command) or a callback query (a press of
\* a prompt's button, whose data is "anon.<message_id>").
Message(chat, message_id, user) ==
    [kind |-> "message", chat |-> chat, message_id |-> message_id, user |-> user]
Callback(chat, message_id, user) ==
    [kind |-> "callback", chat |-> chat, message_id |-> message_id, user |-> user]
NoUpdate == [kind |-> "none", chat |-> 0, message_id |-> 0, user |-> 0]

\* Group messages as <<chat id, message id>>.  Group chat ids are negative.
GroupMessages == { <<-1, 23>>, <<-12, 3>> }
\* Commands sent in groups: by a developer, by another user, and by admins
\* posting as the group (the anonymous-admin sentinel).
GroupCommands ==
    { Message(-1, 23, 7), Message(-1, 23, 8),
      Message(-1, 23, ANONYMOUS_ADMIN), Message(-12, 3, ANONYMOUS_ADMIN) }
\* Commands sent in private: the chat id of a private chat is its user's id.
PrivateCommands == { Message(7, 5, 7), Message(8, 5, 8) }
\* Users who press a button: real accounts only.  The resolver uses the
\* presser's id for the lookup alone, so one account stands for all.
Clickers == {8}

\* message.chat.type == ChatType.PRIVATE
IsPrivate(chat) == chat > 0

Flags == {"can_pin_messages", "can_delete_messages"}

\* The `permissions` argument of Admins(): None, one flag name, or a list.
PermissionArgs ==
    { [kind |-> "none", names |-> << >>],
      [kind |-> "str",  names |-> <<"can_pin_messages">>],
      [kind |-> "list", names |-> <<"can_pin_messages", "can_delete_messages">>] }

\* Every combination of the decorator's arguments.
Policies ==
    [ permissions : PermissionArgs,
      is_bot : BOOLEAN, is_user : BOOLEAN, is_both : BOOLEAN,
      only_owner : BOOLEAN, only_dev : BOOLEAN,
      no_reply : BOOLEAN, allow_pm : BOOLEAN ]

\* ------------------------------------------------------- membership records
\* A ChatMember as the guard reads it: its status and the can_* attributes
\* that are true on it.  Only ChatMemberAdministrator carries the admin
\* can_* attributes; ChatMemberOwner and ChatMemberMember have none.
Member(flags) == [status |-> "member", flags |-> flags]
Administrator(flags) == [status |-> "administrator", flags |-> flags]
Owner == [status |-> "creator", flags |-> {}]
\* get_member_with_cache returned None.
NoMember == [status |-> "None", flags |-> {}]
\* get_member_with_cache raised (a transport failure).
Raised == [status |-> "raised", flags |-> {}]
\* get_member_with_cache was not called.
NotLookedUp == [status |-> "not looked up", flags |-> {}]

MemberRecords ==
    { Member({}), Owner,
      Administrator({}), Administrator({"can_pin_messages"}),
      Administrator(Flags) }

\* What one call of get_member_with_cache can give its caller.
\* One call of get_member_with_cache: a record (from the cache or fetched),
\* None (member not found), or a raised transport failure.  Each call makes
\* at most one fetch.
LookupResults == MemberRecords \cup {NoMember, Raised}
\* The lookup of the bot itself: a bot cannot be the creator of a chat.
BotResults == LookupResults \ {Owner}

\* is_admin(member) and is_owner(member) of decorator/cache.py as admins.py
\* imports them.
is_admin(member) == member.status \in {"administrator", "creator"}
is_owner(member) == member.status = "creator"

\* getattr(member_privileges, permission, False)
getattr(member, permission) == permission \in member.flags

\* ------------------------------------------------------------ pure helpers
RECURSIVE DecimalDigits(_)
\* len(str(n)) for n >= 0
DecimalDigits(n) == IF n < 10 THEN 1 ELSE 1 + DecimalDigits(n \div 10)

RECURSIVE Pow10(_)
Pow10(k) == IF k = 0 THEN 1 ELSE 10 * Pow10(k - 1)

\* int(f"{chat_id}{message_id}"): the decimal digits of the message id are
\* appended to those of the chat id, sign included, and the text is read
\* back as one integer.
Token(chat_id, message_id) ==
    IF chat_id < 0
    THEN 0 - ((0 - chat_id) * Pow10(DecimalDigits(message_id)) + message_id)
    ELSE chat_id * Pow10(DecimalDigits(message_id)) + message_id

\* PERMISSION_ERROR_MESSAGES.get(p, p)
PERMISSION_ERROR_MESSAGES(p) ==
    CASE p = "can_delete_messages" -> "delete messages"
      [] p = "can_pin_messages" -> "pin messages"
      [] OTHER -> p

RECURSIVE AppendMissing(_, _, _)
\* The loop of check_permissions: each name whose attribute is not true on
\* the member is appended to missing_permissions, in the order of iteration.
AppendMissing(missing_permissions, member_privileges, names) ==
    IF names = << >> THEN missing_permissions
    ELSE AppendMissing(
            IF getattr(member_privileges, Head(names))
            THEN missing_permissions
            ELSE Append(missing_permissions, Head(names)),
            member_privileges, Tail(names))

\* check_permissions(member_privileges, permissions_list) acting on the
\* enclosing missing_permissions list; the operator gives the list after the
\* call.  None returns at once; a single name is iterated as [name].
check_permissions(missing_permissions, member_privileges, permissions_list) ==
    IF permissions_list.kind = "none" THEN missing_permissions
    ELSE AppendMissing(missing_permissions, member_privileges,
                       permissions_list.names)

RECURSIVE Phrases(_)
\* ', '.join(PERMISSION_ERROR_MESSAGES.get(p, p) for p in missing_permissions)
Phrases(missing) ==
    IF missing = << >> THEN << >>
    ELSE <<PERMISSION_ERROR_MESSAGES(Head(missing))>> \o Phrases(Tail(missing))

\* --------------------------------------------------- how a handler call ends
\* invoked: how many times the guarded function was called; text/listed: the
\* one notice sent (reply or alert) and the names it lists; raised: the
\* exception that left the handler.
Finish(invoked, text, listed, raised) ==
    [invoked |-> invoked, text |-> text, listed |-> listed, raised |-> raised]

CallFunc == Finish(1, "", << >>, "none")
ReturnNone == Finish(0, "", << >>, "none")
Send(text) == Finish(0, text, << >>, "none")
SendListing(text, listed) == Finish(0, text, listed, "none")
Raise(exception) == Finish(0, "", << >>, exception)

\* What the guarded function does when called: it returns its result or it
\* raises.
FuncOutcomes == {"returns", "raises"}

\* What the function did in a call that ends as `end`.
FuncOutcome(end, outcome) == IF end.invoked = 1 THEN outcome ELSE "not called"

\* Lines 146 and 230, `return await func(update, context, *args, **kwargs)`:
\* an exception of the function leaves the handler as it is.
GuardRaise(end, outcome) ==
    IF end.invoked = 1 /\ outcome = "raises"
    THEN [end EXCEPT !.raised = "ActionError"] ELSE end

\* What wrapped() returns: the function's result, the Message of the notice
\* or prompt it sent (`return await sender(...)`), or None; nothing when an
\* exception leaves it.
GuardReturns(end, outcome) ==
    IF GuardRaise(end, outcome).raised # "none" THEN "nothing"
    ELSE IF end.invoked = 1 THEN "result"
    ELSE IF end.text # "" THEN "Message"
    ELSE "None"

\* Line 230: the function is called with the update being handled.
GuardCallsWith(handled, end) == IF end.invoked = 1 THEN handled ELSE NoUpdate

\* A resolver whose except clause swallows the function's exception.
VerifyRaise_Swallows(end, outcome) == end

\* Lines 75-80, try: ... await func(update, context) / except Exception as
\* e: raise e -- the function's exception is raised again.
VerifyRaise(end, outcome) ==
    IF end.invoked = 1 /\ outcome = "raises"
    THEN [end EXCEPT !.raised = "ActionError"] ELSE end

\* How callback.delete_message() of line 77 ends: the prompt is deleted, or
\* the API refuses (the message is gone or too old).
DeleteResults == {"deleted", "BadRequest"}

\* A resolver that calls the function although the prompt was not deleted.
DeleteThenCall_CallsAnyway(end, deletion) == end

\* Lines 75-78: delete_message is awaited before func; when it raises, func
\* is not called and the exception leaves the handler (`raise e`).
DeleteThenCall(end, deletion) ==
    IF end.invoked = 1 /\ deletion # "deleted"
    THEN [end EXCEPT !.invoked = 0, !.raised = deletion] ELSE end

\* What became of the prompt in a call whose checks ended as `checked`.
PromptAfter(checked, deletion) ==
    IF checked.invoked = 0 THEN "none"
    ELSE IF deletion = "deleted" THEN "deleted" ELSE "delete failed"

\* What verify_anonymous_admin returns: every return is a bare `return`,
\* and the function's result is not returned (line 78).
VerifyReturns(end, outcome) ==
    IF VerifyRaise(end, outcome).raised # "none" THEN "nothing" ELSE "None"

\* Line 78, func(update, context): the function is called with the callback
\* query's update; the stored message is not passed on.
VerifyCallsWith(callback, entry, end) ==
    IF end.invoked = 1 THEN callback ELSE NoUpdate

\* ------------------------------------------------ Admins.wrapped, the checks
\* Lines 191-230: the permission checks and the call of the function.  The
\* three blocks share one missing_permissions list.
PermissionChecks(pol, bot, user) ==
    LET names == pol.permissions
        afterBot == IF pol.is_bot THEN check_permissions(<< >>, bot, names) ELSE << >>
    IN
    IF pol.is_bot /\ afterBot # << >>
    THEN SendListing("I don't have permission to", Phrases(afterBot))
    ELSE
    LET afterUser == IF pol.is_user THEN check_permissions(afterBot, user, names)
                     ELSE afterBot
    IN
    IF pol.is_user /\ afterUser # << >> /\ ~is_owner(user)
    THEN SendListing("You don't have permission to", Phrases(afterUser))
    ELSE
    IF ~pol.is_both THEN CallFunc
    ELSE IF ~is_admin(bot) THEN Send("I need to be an admin to do this.")
    ELSE IF ~is_admin(user) THEN Send("You need to be an admin to do this.")
    ELSE
    LET bothBot == check_permissions(afterUser, bot, names) IN
    IF bothBot # << >>
    THEN SendListing("I don't have permission to", Phrases(bothBot))
    ELSE
    \* missing_permissions.clear()
    LET bothUser == check_permissions(<< >>, user, names) IN
    IF bothUser # << >> /\ ~is_owner(user)
    THEN SendListing("You don't have permission to", Phrases(bothUser))
    ELSE CallFunc

\* Admin checks whose is_user test looks at the bot's record.
AdminChecks_UserTestOnBot(pol, bot, user) ==
    IF pol.is_bot /\ ~is_admin(bot)
    THEN Send("I need to be an admin to do this.")
    ELSE IF pol.is_user /\ ~is_admin(bot)
    THEN Send("You need to be an admin to do this.")
    ELSE IF pol.is_both /\ ~is_admin(bot) /\ ~is_admin(user)
    THEN Send("I need to be an admin and you need to be an admin to do this.")
    ELSE PermissionChecks(pol, bot, user)

\* Lines 183-189: the admin checks.
AdminChecks(pol, bot, user) ==
    IF pol.is_bot /\ ~is_admin(bot)
    THEN Send("I need to be an admin to do this.")
    ELSE IF pol.is_user /\ ~is_admin(user)
    THEN Send("You need to be an admin to do this.")
    ELSE IF pol.is_both /\ ~is_admin(bot) /\ ~is_admin(user)
    THEN Send("I need to be an admin and you need to be an admin to do this.")
    ELSE PermissionChecks(pol, bot, user)

\* An owner check that lets every admin through.
OwnerCheck_AdminSuffices(pol, bot, user) ==
    IF pol.only_owner /\ ~is_admin(user)
    THEN IF pol.no_reply THEN ReturnNone
         ELSE Send("Only the chat owner can run this command.")
    ELSE AdminChecks(pol, bot, user)

\* Lines 177-181: the owner check.
OwnerCheck(pol, bot, user) ==
    IF pol.only_owner /\ ~is_owner(user)
    THEN IF pol.no_reply THEN ReturnNone
         ELSE Send("Only the chat owner can run this command.")
    ELSE AdminChecks(pol, bot, user)

\* A test of the lookups that looks at the bot's record only.
AfterLookups_OnlyBot(pol, bot, user) ==
    IF bot = NoMember
    THEN Send("Could not retrieve member information.")
    ELSE OwnerCheck(pol, bot, user)

\* Lines 173-230: everything after the two lookups returned.
AfterLookups(pol, bot, user) ==
    IF bot = NoMember \/ user = NoMember
    THEN Send("Could not retrieve member information.")
    ELSE OwnerCheck(pol, bot, user)


\* ------------------------------------------------------------- cache.py
\* admin_cache = TTLCache(maxsize=1000, ttl=15 * 60), in seconds.
maxsize == 1000
ttl == 15 * 60

\* One administrator of a chat as get_chat_administrators returns it.
AdminEntry(user_id, status) == [user |-> user_id, status |-> status]

\* The chats and users of the cache scenarios, and the administrator lists a
\* chat can have.
CacheChats == {-1, -12}
CacheUsers == {7, 8, 9}
AdminLists ==
    { <<AdminEntry(7, "creator")>>,
      <<AdminEntry(7, "creator"), AdminEntry(8, "administrator")>> }

\* How bot.get_chat_administrators ends: with the list, or with an exception
\* of the API (BadRequest/Forbidden: chat not found, bot not a member) or of
\* the network.
FetchResults == {"ok", "BadRequest", "NetworkError"}

\* class AdminCache.
AdminCache(chat_id, user_info, cached) ==
    [chat_id |-> chat_id, user_info |-> user_info, cached |-> cached]
NoAdminCache == AdminCache(0, << >>, FALSE)

\* The TTLCache is a sequence of items, least recently used first. An item
\* carries its key, its value, the time it expires and (for the claims) the
\* time it was stored.
Item(key, value, t) ==
    [key |-> key, value |-> value, expires |-> t + ttl, stored |-> t]

Keys(cache) == {cache[i].key : i \in 1..Len(cache)}
Find(cache, key) == CHOOSE i \in 1..Len(cache) : cache[i].key = key
Without(cache, key) == SelectSeq(cache, LAMBDA item : item.key # key)

\* TTLCache.expire: the items not yet expired at time t.
Expire(cache, t) == SelectSeq(cache, LAMBDA item : t < item.expires)

\* A TTLCache that forgets to test the expiry time.
Contains_IgnoresExpiry(cache, t, key) == key \in Keys(cache)

\* TTLCache.__contains__: the key is there and t < expires; the order is
\* left alone.
Contains(cache, t, key) ==
    \E i \in 1..Len(cache) : cache[i].key = key /\ t < cache[i].expires

\* TTLCache.__getitem__ of a key it contains: the item becomes the most
\* recently used.
GetItem(cache, key) ==
    LET item == cache[Find(cache, key)]
    IN  [cache |-> Append(Without(cache, key), item), value |-> item.value]

\* A cache that evicts the most recently used item.
PopItem_Newest(cache) == SubSeq(cache, 1, Len(cache) - 1)

\* TTLCache.popitem (after expire): the least recently used item goes.
PopItem(cache) == Tail(cache)

\* TTLCache.__setitem__: expired items are removed; a new key in a full
\* cache evicts by popitem; the item is stored as the most recently used
\* with expires = t + ttl.
SetItem(cache, t, key, value) ==
    LET live == Expire(cache, t)
        room == IF key \notin Keys(live) /\ Len(live) >= maxsize
                THEN PopItem(live) ELSE live
    IN  Append(Without(room, key), Item(key, value, t))

\* A load_admin_cache that stores the placeholder of a failed fetch.
load_admin_cache_StoresPlaceholder(cache, t, chat_id, force_reload, fetch, admin_list) ==
    IF ~force_reload /\ Contains(cache, t, chat_id)
    THEN [cache |-> GetItem(cache, chat_id).cache, ok |-> TRUE,
          value |-> GetItem(cache, chat_id).value, fetches |-> 0,
          raised |-> "none"]
    ELSE LET value == IF fetch = "ok" THEN AdminCache(chat_id, admin_list, TRUE)
                      ELSE AdminCache(chat_id, << >>, FALSE)
             stored == SetItem(cache, t, chat_id, value)
         IN  [cache |-> GetItem(stored, chat_id).cache, ok |-> fetch = "ok",
              value |-> value, fetches |-> 1, raised |-> "none"]

\* A load_admin_cache that returns the fetched list without storing it.
load_admin_cache_NoStore(cache, t, chat_id, force_reload, fetch, admin_list) ==
    IF ~force_reload /\ Contains(cache, t, chat_id)
    THEN [cache |-> GetItem(cache, chat_id).cache, ok |-> TRUE,
          value |-> GetItem(cache, chat_id).value, fetches |-> 0,
          raised |-> "none"]
    ELSE IF fetch = "ok"
    THEN [cache |-> cache, ok |-> TRUE,
          value |-> AdminCache(chat_id, admin_list, TRUE), fetches |-> 1,
          raised |-> "none"]
    ELSE [cache |-> cache, ok |-> FALSE,
          value |-> AdminCache(chat_id, << >>, FALSE), fetches |-> 1,
          raised |-> "none"]

\* load_admin_cache(bot, chat_id, force_reload) at time t; fetch is how
\* get_chat_administrators ends and admin_list what it returns. Lines 25-26:
\* the cached value without a fetch; lines 28-32: one fetch, stored and
\* returned; lines 33-36: every exception is caught and (False, empty
\* AdminCache with cached=False) is returned.
load_admin_cache(cache, t, chat_id, force_reload, fetch, admin_list) ==
    IF ~force_reload /\ Contains(cache, t, chat_id)
    THEN [cache |-> GetItem(cache, chat_id).cache, ok |-> TRUE,
          value |-> GetItem(cache, chat_id).value, fetches |-> 0,
          raised |-> "none"]
    ELSE IF fetch = "ok"
    THEN LET stored == SetItem(cache, t, chat_id,
                               AdminCache(chat_id, admin_list, TRUE))
         IN  [cache |-> GetItem(stored, chat_id).cache, ok |-> TRUE,
              value |-> GetItem(stored, chat_id).value, fetches |-> 1,
              raised |-> "none"]
    ELSE [cache |-> cache, ok |-> FALSE,
          value |-> AdminCache(chat_id, << >>, FALSE), fetches |-> 1,
          raised |-> "none"]

\* get_admin_cache_user(chat_id, user_id): admin_cache.get(chat_id), then a
\* search of the cached list; (False, None) on a miss or when the user is
\* not in the list. No fetch is made.
NoEntry == AdminEntry(0, "none")
get_admin_cache_user(cache, t, chat_id, user_id) ==
    IF ~Contains(cache, t, chat_id)
    THEN [cache |-> cache, is_cached |-> FALSE, user_info |-> NoEntry]
    ELSE LET got == GetItem(cache, chat_id)
             list == got.value.user_info
             hits == {i \in 1..Len(list) : list[i].user = user_id}
         IN  IF hits = {}
             THEN [cache |-> got.cache, is_cached |-> FALSE, user_info |-> NoEntry]
             ELSE [cache |-> got.cache, is_cached |-> TRUE,
                   user_info |-> list[CHOOSE i \in hits : \A j \in hits : i <= j]]

\* cache.py is_owner(chat_id, user_id) and is_admin(chat_id, user_id).
cache_is_owner(found) == found.is_cached /\ found.user_info.status = "creator"
cache_is_admin(found) ==
    found.is_cached /\ found.user_info.status \in {"administrator", "creator"}

\* ------------------------------------------------------------------- state
VARIABLES
    policy,     \* the arguments the Admins decorator was applied with
    bot_data,   \* context.bot_data: token -> (message, func, permissions)
    prompts,    \* "Verify Admin" prompts on screen, per guarded message
    spent,      \* tokens whose entry a verification used up without calling
                \* the function (cleared when the token is stored again)
    update,     \* the update being dispatched
    last,       \* the handler call made for it: what it read, how it ended
    admin_cache,\* cache.py admin_cache: chat_id -> AdminCache, with expiry
    now,        \* the cache's timer, in seconds
    admins,     \* the administrators each chat really has
    ret,        \* the last call into cache.py: what it found, what it returned
    units,      \* concurrent calls of verify_anonymous_admin: where each is
    tally       \* per token: challenges stored, entries popped, calls of func

guardVars == <<policy, bot_data, prompts, spent, update, last>>
cacheVars == <<admin_cache, now, admins, ret>>
unitVars == <<units, tally>>
vars == <<policy, bot_data, prompts, spent, update, last,
          admin_cache, now, admins, ret, units, tally>>

\* The tuple stored under a token; age counts the clock ticks since.
Pending(message, permissions) ==
    [message |-> message, func |-> "func", permissions |-> permissions,
     age |-> 0]

\* No handler call: also the blank form of a call's record.  update: the
\* update handled; bot, member, lookups: the membership lookups made and what
\* they gave; token: the bot_data key used; entry: the tuple stored or popped
\* (as a sequence of at most one); spent: the key was in `spent` when the call
\* began; prompt: what happened to a prompt; end: how the call ended;
\* called_with: the update the guarded function received; func_outcome: what
\* the function did; returned: what the handler gave back to its caller.
NoCall ==
    [handler |-> "none", update |-> NoUpdate,
     bot |-> NotLookedUp, member |-> NotLookedUp, lookups |-> << >>,
     token |-> 0, entry |-> << >>, spent |-> FALSE,
     prompt |-> "none", end |-> ReturnNone,
     called_with |-> NoUpdate, func_outcome |-> "not called",
     returned |-> "None"]

\* A call into cache.py. stored: when the chat's item in the cache was
\* stored (-1: no item); live, lru: how many unexpired items the cache held
\* before the call and the least recently used of them (0: none); evicted:
\* the unexpired items the call removed.
NoRet ==
    [op |-> "none", chat_id |-> 0, user_id |-> 0, force_reload |-> FALSE,
     fetch |-> "none", fetches |-> 0, ok |-> FALSE, value |-> NoAdminCache,
     raised |-> "none", answer |-> FALSE,
     stored |-> -1, live |-> 0, lru |-> 0, evicted |-> {}]

\* Admins() with its default arguments (lines 104-111).
DefaultPolicy ==
    [permissions |-> [kind |-> "none", names |-> << >>],
     is_bot |-> FALSE, is_user |-> FALSE, is_both |-> FALSE,
     only_owner |-> FALSE, only_dev |-> FALSE,
     no_reply |-> FALSE, allow_pm |-> TRUE]

\* Every chat has its owner as only administrator.
OwnersOnly == [c \in CacheChats |-> <<AdminEntry(7, "creator")>>]

GuardIdle ==
    /\ bot_data = << >>
    /\ prompts = [m \in GroupMessages |-> 0]
    /\ spent = {}
    /\ update = NoUpdate
    /\ last = NoCall

CacheIdle ==
    /\ admin_cache = << >>
    /\ now = 0
    /\ ret = NoRet

\* The calls of verify_anonymous_admin that can be in progress at once.
MaxUnits == 2
Units == 1..MaxUnits

\* The guarded message the concurrent calls are about, and its token.
UnitMessages == { <<-1, 23>> }
Tokens == {Token(m[1], m[2]) : m \in UnitMessages}

\* A unit that handles nothing. pc: the await the call is suspended at;
\* update: its callback; entry: what it popped; member: the first lookup's
\* result; end: how the call ended (the locals are gone by then).
NoUnit ==
    [pc |-> "idle", update |-> NoUpdate, entry |-> << >>,
     member |-> NotLookedUp, end |-> ReturnNone]

UnitsIdle ==
    /\ units = [u \in Units |-> NoUnit]
    /\ tally = [t \in Tokens |-> [issued |-> 0, popped |-> 0, invoked |-> 0]]

Init ==
    /\ policy \in Policies
    /\ GuardIdle
    /\ CacheIdle
    /\ UnitsIdle
    /\ admins = OwnersOnly

\* ---------------------------------------------------------------- dispatch
\* The handler call has returned to the dispatcher.
Returned ==
    /\ update = NoUpdate
    /\ last # NoCall
    /\ last' = NoCall
    /\ UNCHANGED <<policy, bot_data, prompts, spent, update>>
    /\ UNCHANGED cacheVars
    /\ UNCHANGED unitVars

\* The dispatcher takes the next update; the previous call is over.
Arrive(u) ==
    /\ update = NoUpdate
    /\ last = NoCall
    /\ update' = u
    /\ last' = NoCall
    /\ UNCHANGED <<policy, bot_data, prompts, spent>>
    /\ UNCHANGED cacheVars
    /\ UNCHANGED unitVars

\* A command arrives.  A message that already carries MaxPrompts prompts is
\* not guarded again by an anonymous sender.
CommandArrives ==
    \E u \in GroupCommands \cup PrivateCommands :
        /\ u.user = ANONYMOUS_ADMIN => prompts[<<u.chat, u.message_id>>] < MaxPrompts
        /\ Arrive(u)

\* Somebody presses the button of a prompt that is on screen.
ButtonPressed ==
    \E m \in GroupMessages, user \in Clickers :
        /\ prompts[m] > 0
        /\ Arrive(Callback(m[1], m[2], user))

\* ------------------------------------------------------- Admins.wrapped
\* Lines 169-230: the two lookups, the bot's first, then the checks.  The
\* second call is not reached when the first raises.
DirectPath(pol, user_id, first, second) ==
    IF first = Raised
    THEN [lookups |-> <<BotId>>, bot |-> Raised, member |-> NotLookedUp,
          end |-> Raise("TransportError")]
    ELSE IF second = Raised
    THEN [lookups |-> <<BotId, user_id>>, bot |-> first, member |-> Raised,
          end |-> Raise("TransportError")]
    ELSE [lookups |-> <<BotId, user_id>>, bot |-> first, member |-> second,
          end |-> AfterLookups(pol, first, second)]

\* A private-chat test that forgets only_dev.
TakesPrivateBranch_IgnoresDev(pol, chat) == IsPrivate(chat)

\* Line 144: the private-chat branch is taken.
TakesPrivateBranch(pol, chat) == IsPrivate(chat) /\ ~pol.only_dev

\* A private-chat branch that forgets allow_pm.
PrivateBranch_IgnoresAllowPm(pol) == CallFunc

\* Lines 145-150: the private-chat branch.
PrivateBranch(pol) ==
    IF pol.allow_pm THEN CallFunc
    ELSE IF pol.no_reply THEN ReturnNone
    ELSE Send("This command can't be used in PM.")

\* A guard that asks an anonymous sender to verify before it tests only_dev.
FailsDevCheck_AfterDeferral(pol, user_id) ==
    /\ pol.only_dev /\ user_id \notin DEVS
    /\ ~(user_id = ANONYMOUS_ADMIN /\ ~pol.no_reply)

\* Line 153: the developer check fails.
FailsDevCheck(pol, user_id) == pol.only_dev /\ user_id \notin DEVS

\* Lines 154-157
DevBranch(pol) ==
    IF pol.no_reply THEN ReturnNone
    ELSE Send("This command can only be used by the developers.")

\* A guard that checks the owner-only argument before the sender.
AsksVerification_AfterOwnerCheck(pol, user_id) ==
    user_id = ANONYMOUS_ADMIN /\ ~pol.no_reply /\ ~pol.only_owner

\* Line 160: the sender is asked to verify.
AsksVerification(pol, user_id) == user_id = ANONYMOUS_ADMIN /\ ~pol.no_reply

\* Line 161: context.bot_data[token] = (message, func, permissions)
Store(data, token, entry) ==
    [t \in DOMAIN data \cup {token} |-> IF t = token THEN entry ELSE data[t]]

\* One call of wrapped(update, context) for the message being dispatched;
\* first and second are what the two lookups give if they are made.
Guard(first, second, outcome) ==
    LET pol == policy
        message == <<update.chat, update.message_id>>
        token == Token(update.chat, update.message_id)
        call == [NoCall EXCEPT !.handler = "guard", !.update = update]
    IN
    /\ update.kind = "message"
    /\ update' = NoUpdate
    /\ IF TakesPrivateBranch(pol, update.chat)
       THEN /\ last' = LET end == PrivateBranch(pol) IN
                  [call EXCEPT !.end = GuardRaise(end, outcome),
                               !.called_with = GuardCallsWith(update, end),
                               !.func_outcome = FuncOutcome(end, outcome),
                               !.returned = GuardReturns(end, outcome)]
            /\ UNCHANGED <<bot_data, prompts, spent>>
       ELSE IF FailsDevCheck(pol, update.user)
       THEN /\ last' = [call EXCEPT !.end = DevBranch(pol),
                                    !.returned = GuardReturns(DevBranch(pol), outcome)]
            /\ UNCHANGED <<bot_data, prompts, spent>>
       ELSE IF AsksVerification(pol, update.user)
       THEN /\ bot_data' = Store(bot_data, token, Pending(message, pol.permissions))
            /\ prompts' = [prompts EXCEPT ![message] = @ + 1]
            /\ spent' = spent \ {token}
            /\ last' = [call EXCEPT
                  !.token = token, !.prompt = "sent",
                  !.entry = <<Pending(message, pol.permissions)>>,
                  !.end = Send("Please verify that you are an admin to perform this action."),
                  !.returned = "Message"]
       ELSE LET d == DirectPath(pol, update.user, first, second) IN
            /\ last' = [call EXCEPT
                  !.bot = d.bot, !.member = d.member,
                  !.lookups = d.lookups, !.end = GuardRaise(d.end, outcome),
                  !.called_with = GuardCallsWith(update, d.end),
                  !.func_outcome = FuncOutcome(d.end, outcome),
                  !.returned = GuardReturns(d.end, outcome)]
            /\ UNCHANGED <<bot_data, prompts, spent>>
    /\ UNCHANGED policy
    /\ UNCHANGED cacheVars
    /\ UNCHANGED unitVars

\* The inputs a call of wrapped() consumes: the lookups only on the direct
\* path (the second only if the first did not raise), the function's outcome
\* only if the function is called. An input that is not consumed is drawn
\* once.
GuardConsumes(first, second, outcome) ==
    IF \/ TakesPrivateBranch(policy, update.chat)
       \/ FailsDevCheck(policy, update.user)
       \/ AsksVerification(policy, update.user)
    THEN /\ first = NoMember /\ second = NoMember
         /\ outcome = "raises" =>
               /\ TakesPrivateBranch(policy, update.chat)
               /\ PrivateBranch(policy).invoked = 1
    ELSE /\ first = Raised => second = Raised
         /\ outcome = "raises" =>
               DirectPath(policy, update.user, first, second).end.invoked = 1

GuardRuns ==
    \E first \in BotResults, second \in LookupResults, outcome \in FuncOutcomes :
        /\ update.kind = "message"
        /\ GuardConsumes(first, second, outcome)
        /\ Guard(first, second, outcome)

\* ------------------------------------------------- verify_anonymous_admin
\* Lines 40-78: the checks on the two records and the call of the function.
VerifyChecks(permissions, member, bot) ==
    IF bot = NoMember \/ member = NoMember
    THEN Send("Failed to get member")
    ELSE IF ~is_admin(bot) THEN Send("I need to be an admin to do this")
    ELSE IF ~is_admin(member) THEN Send("You need to be an admin to do this")
    ELSE
    LET missing_permissions == check_permissions(<< >>, member, permissions) IN
    IF missing_permissions # << >> /\ member.status # "creator"
    THEN SendListing("You do not have the required permissions:", missing_permissions)
    ELSE CallFunc

\* Lines 37-78: the two lookups, the clicking user's first, then the checks.
VerifyPath(permissions, user_id, first, second) ==
    IF first = Raised
    THEN [lookups |-> <<user_id>>, member |-> Raised, bot |-> NotLookedUp,
          end |-> Raise("TransportError")]
    ELSE IF second = Raised
    THEN [lookups |-> <<user_id, BotId>>, member |-> first, bot |-> Raised,
          end |-> Raise("TransportError")]
    ELSE [lookups |-> <<user_id, BotId>>, member |-> first, bot |-> second,
          end |-> VerifyChecks(permissions, first, second)]

\* Line 31: context.bot_data.pop(callback_id) on a dict: the key is there.
PopFinds(data, token) == token \in DOMAIN data

\* A resolver that reads the entry (dict.get) and leaves it in place.
Pop_Keeps(data, token) == data

\* Line 31: the dict after the pop.
Pop(data, token) == [t \in DOMAIN data \ {token} |-> data[t]]

\* Line 32: `if not message` for the stored Message object.
NotMessage(message) == message = << >>

\* One call of verify_anonymous_admin(update, context) for the callback
\* being dispatched.
Verify(first, second, deletion, outcome) ==
    LET message == <<update.chat, update.message_id>>
        token == Token(update.chat, update.message_id)
        call == [NoCall EXCEPT !.handler = "verify", !.update = update,
                               !.token = token, !.spent = token \in spent]
    IN
    /\ update.kind = "callback"
    /\ update' = NoUpdate
    /\ IF ~PopFinds(bot_data, token)
       THEN /\ last' = [call EXCEPT !.end = Raise("KeyError"),
                                    !.returned = "nothing"]
            /\ UNCHANGED <<bot_data, prompts, spent>>
       ELSE
       LET entry == bot_data[token] IN
       /\ bot_data' = Pop(bot_data, token)
       /\ IF NotMessage(entry.message)
          THEN /\ last' = [call EXCEPT !.entry = <<entry>>, !.prompt = "deleted",
                                       !.end = Send("Failed to get message")]
               /\ prompts' = [prompts EXCEPT ![message] = @ - 1]
               /\ spent' = spent \cup {token}
          ELSE
          LET v == VerifyPath(entry.permissions, update.user, first, second)
              end == DeleteThenCall(v.end, deletion)
          IN
          /\ last' = [call EXCEPT
                !.entry = <<entry>>, !.member = v.member, !.bot = v.bot,
                !.lookups = v.lookups, !.end = VerifyRaise(end, outcome),
                !.called_with = VerifyCallsWith(update, entry, end),
                !.func_outcome = FuncOutcome(end, outcome),
                !.returned = VerifyReturns(end, outcome),
                !.prompt = PromptAfter(v.end, deletion)]
          /\ prompts' = IF PromptAfter(v.end, deletion) = "deleted"
                        THEN [prompts EXCEPT ![message] = @ - 1]
                        ELSE prompts
          /\ spent' = IF end.invoked = 1 THEN spent ELSE spent \cup {token}
    /\ UNCHANGED policy
    /\ UNCHANGED cacheVars
    /\ UNCHANGED unitVars

\* The inputs a call of verify_anonymous_admin consumes: the lookups only
\* if an entry with a message was popped, the deletion's result only if the
\* checks pass, the function's outcome only if the function is called.
VerifyConsumes(first, second, deletion, outcome) ==
    LET token == Token(update.chat, update.message_id) IN
    IF ~PopFinds(bot_data, token) \/ NotMessage(bot_data[token].message)
    THEN /\ first = NoMember /\ second = NoMember
         /\ deletion = "deleted" /\ outcome = "returns"
    ELSE LET passes == VerifyPath(bot_data[token].permissions, update.user,
                                  first, second).end.invoked = 1
         IN  /\ first = Raised => second = Raised
             /\ deletion # "deleted" => passes
             /\ outcome = "raises" => (passes /\ deletion = "deleted")

VerifyRuns ==
    \E first \in LookupResults, second \in BotResults,
       deletion \in DeleteResults, outcome \in FuncOutcomes :
        /\ update.kind = "callback"
        /\ VerifyConsumes(first, second, deletion, outcome)
        /\ Verify(first, second, deletion, outcome)

\* ------------------------------------------------------------------- clock
\* Time passes: every pending entry grows one tick older.
Tick ==
    /\ update = NoUpdate
    /\ \E t \in DOMAIN bot_data : bot_data[t].age < ChallengeTTL
    /\ bot_data' = [t \in DOMAIN bot_data |->
                      IF bot_data[t].age < ChallengeTTL
                      THEN [bot_data[t] EXCEPT !.age = @ + 1]
                      ELSE bot_data[t]]
    /\ last' = NoCall
    /\ UNCHANGED <<policy, prompts, spent, update>>
    /\ UNCHANGED cacheVars
    /\ UNCHANGED unitVars

Next ==
    CommandArrives \/ ButtonPressed \/ GuardRuns \/ VerifyRuns \/ Returned \/ Tick

Spec == Init /\ [][Next]_vars

\* ------------------------------------------------------ cache.py, the calls
\* Time passes in steps of Step seconds up to MaxTime.
Step == 300
MaxTime == 1500

\* What get_chat_administrators returns for a chat.
Actual(chat_id) ==
    IF chat_id \in DOMAIN admins THEN admins[chat_id]
    ELSE <<AdminEntry(7, "creator")>>

\* What a call finds in the cache before it acts.
Before(chat_id) ==
    LET live == Expire(admin_cache, now)
    IN  [stored |-> IF chat_id \in Keys(admin_cache)
                    THEN admin_cache[Find(admin_cache, chat_id)].stored ELSE -1,
         live |-> Len(live),
         lru |-> IF live = << >> THEN 0 ELSE live[1].key]

Evicted(after) == Keys(Expire(admin_cache, now)) \ Keys(after)

\* await load_admin_cache(bot, chat_id, force_reload)
LoadAdminCache(chat_id, force_reload, fetch) ==
    LET r == load_admin_cache(admin_cache, now, chat_id, force_reload, fetch,
                              Actual(chat_id))
        b == Before(chat_id)
    IN  /\ admin_cache' = r.cache
        /\ ret' = [NoRet EXCEPT
                     !.op = "load", !.chat_id = chat_id,
                     !.force_reload = force_reload,
                     !.fetch = IF r.fetches = 0 THEN "none" ELSE fetch,
                     !.fetches = r.fetches, !.ok = r.ok, !.value = r.value,
                     !.raised = r.raised,
                     !.stored = b.stored, !.live = b.live, !.lru = b.lru,
                     !.evicted = Evicted(r.cache)]
        /\ UNCHANGED <<now, admins>>
        /\ UNCHANGED guardVars
    /\ UNCHANGED unitVars
        /\ UNCHANGED unitVars

Loads ==
    \E chat_id \in CacheChats, force_reload \in BOOLEAN, fetch \in FetchResults :
        LoadAdminCache(chat_id, force_reload, fetch)

\* await is_admin(chat_id, user_id) / await is_owner(chat_id, user_id)
Ask(op, chat_id, user_id) ==
    LET found == get_admin_cache_user(admin_cache, now, chat_id, user_id)
        b == Before(chat_id)
    IN  /\ admin_cache' = found.cache
        /\ ret' = [NoRet EXCEPT
                     !.op = op, !.chat_id = chat_id, !.user_id = user_id,
                     !.answer = IF op = "is_owner" THEN cache_is_owner(found)
                                ELSE cache_is_admin(found),
                     !.stored = b.stored, !.live = b.live, !.lru = b.lru]
        /\ UNCHANGED <<now, admins>>
        /\ UNCHANGED guardVars
    /\ UNCHANGED unitVars
        /\ UNCHANGED unitVars

IsAdmin == \E chat_id \in CacheChats, user_id \in CacheUsers : Ask("is_admin", chat_id, user_id)
IsOwner == \E chat_id \in CacheChats, user_id \in CacheUsers : Ask("is_owner", chat_id, user_id)

\* A chat's administrators change.
AdminsChange ==
    \E chat_id \in CacheChats, list \in AdminLists :
        /\ admins[chat_id] # list
        /\ admins' = [admins EXCEPT ![chat_id] = list]
        /\ ret' = NoRet
        /\ UNCHANGED <<admin_cache, now>>
        /\ UNCHANGED guardVars
    /\ UNCHANGED unitVars
        /\ UNCHANGED unitVars

Advance ==
    /\ now + Step <= MaxTime
    /\ now' = now + Step
    /\ ret' = NoRet
    /\ UNCHANGED <<admin_cache, admins>>
    /\ UNCHANGED guardVars
    /\ UNCHANGED unitVars

InitCache ==
    /\ policy = DefaultPolicy
    /\ GuardIdle
    /\ CacheIdle
    /\ UnitsIdle
    /\ admins \in [CacheChats -> AdminLists]

NextCache == Loads \/ IsAdmin \/ IsOwner \/ AdminsChange \/ Advance

SpecCache == InitCache /\ [][NextCache]_vars

\* ------------------------------------------------- cache.py, a full cache
\* Chats -1, -2, ... are loaded one after the other until the cache has been
\* full for MaxExtra loads; once the cache is full the chat loaded first may
\* be looked up again.
MaxExtra == 2

\* The number of chats loaded so far: only chat -1 is ever looked up again,
\* so the chat loaded last is the most recently used item or the one before.
Loaded(cache) ==
    IF cache = << >> THEN 0
    ELSE IF cache[Len(cache)].key = -1 /\ Len(cache) > 1
    THEN -cache[Len(cache) - 1].key
    ELSE -cache[Len(cache)].key

FillLoads ==
    /\ Loaded(admin_cache) < maxsize + MaxExtra
    /\ LoadAdminCache(-(Loaded(admin_cache) + 1), FALSE, "ok")

FillTouch ==
    /\ Len(admin_cache) = maxsize
    /\ admin_cache[1].key = -1
    /\ LoadAdminCache(-1, FALSE, "ok")

InitFill ==
    /\ policy = DefaultPolicy
    /\ GuardIdle
    /\ CacheIdle
    /\ UnitsIdle
    /\ admins = OwnersOnly

NextFill == FillLoads \/ FillTouch

SpecFill == InitFill /\ [][NextFill]_vars

\* ================================================================== claims
\* Words shared by the claims, read off the record of the last call.
GuardCall == last.handler = "guard"
VerifyCall == last.handler = "verify"
InGroup == ~IsPrivate(last.update.chat)
Invoked == last.end.invoked = 1
\* A lookup gave a membership record (not None, not a failure).
Resolved(record) == record \in MemberRecords
\* The record holds every flag the permissions argument names.
HoldsAll(record, permissions) ==
    \A i \in 1..Len(permissions.names) : permissions.names[i] \in record.flags
\* The names of the permissions argument the record lacks, in its order.
Lacking(record, permissions) ==
    LET lacks(p) == p \notin record.flags IN SelectSeq(permissions.names, lacks)
\* The call stored a pending challenge under the token of its own message
\* and sent the prompt, looked nobody up and did not call the function.
Deferred ==
    /\ last.lookups = << >>
    /\ last.bot = NotLookedUp /\ last.member = NotLookedUp
    /\ ~Invoked
    /\ last.prompt = "sent"
    /\ last.token = Token(last.update.chat, last.update.message_id)
    /\ last.token \in DOMAIN bot_data
    /\ bot_data[last.token].message = <<last.update.chat, last.update.message_id>>
    /\ bot_data[last.token].permissions = policy.permissions
    /\ last.end.text = "Please verify that you are an admin to perform this action."
\* A command of the anonymous-admin sentinel in a group that passes the
\* developer check.
AnonymousGroupCommand ==
    /\ GuardCall /\ InGroup
    /\ last.update.user = ANONYMOUS_ADMIN
    /\ (policy.only_dev => last.update.user \in DEVS)

\* C1 (as stated): under every policy, a group command of the anonymous-admin
\* sentinel that passes the developer check is deferred: no membership
\* lookup, a pending challenge stored under the (chat, message) token, a
\* prompt sent, the function not called.
C1_AnonymousAlwaysDeferred == AnonymousGroupCommand => Deferred

\* C1 (amended): the same under every policy whose no_reply is false; all
\* other arguments are free.
C1_AnonymousDeferredUnlessNoReply ==
    (AnonymousGroupCommand /\ ~policy.no_reply) => Deferred

C1_Witness ==
    /\ AnonymousGroupCommand /\ Deferred
    /\ policy.only_owner /\ policy.is_both /\ policy.permissions.kind = "list"

\* C2: a press on a button whose token has no pending entry (already
\* resolved, never re-issued) is answered with the "Failed to get message"
\* alert and the prompt is removed; the function is not called and no
\* exception leaves the handler.
C2_SecondResolveIsHandled ==
    (VerifyCall /\ last.entry = << >>) =>
        /\ last.end.raised = "none"
        /\ last.end.text = "Failed to get message"
        /\ last.prompt = "deleted"
        /\ ~Invoked

\* C3: a press at least ChallengeTTL ticks after the challenge was stored
\* never calls the stored function, whoever presses.
C3_ExpiredChallengeNeverRuns ==
    (VerifyCall /\ last.entry # << >> /\ last.entry[1].age >= ChallengeTTL) =>
        ~Invoked

\* The clicking user fails verification: not an admin, or an Administrator
\* lacking a flag of the stored permissions.
FailsVerification ==
    /\ VerifyCall /\ last.entry # << >>
    /\ Resolved(last.member) /\ Resolved(last.bot)
    /\ \/ ~is_admin(last.member)
       \/ /\ last.member.status = "administrator"
          /\ ~HoldsAll(last.member, last.entry[1].permissions)

PassesStep6(pol, permissions, bot, user) ==
    /\ (pol.is_bot \/ pol.is_both) =>
          is_admin(bot) /\ HoldsAll(bot, permissions)
    /\ (pol.is_user \/ pol.is_both) =>
          is_admin(user) /\ (is_owner(user) \/ HoldsAll(user, permissions))

\* C5: the resolver calls the deferred function exactly when the clicking
\* user and the bot pass step 6 under the policy the function was guarded
\* with.
C5_ResolverAppliesStep6 ==
    (VerifyCall /\ last.entry # << >> /\ Resolved(last.member) /\ Resolved(last.bot)) =>
        (Invoked <=> PassesStep6(policy, last.entry[1].permissions,
                                 last.bot, last.member))

\* A group command handled on the direct path: no challenge was issued.
DirectGroupCall == GuardCall /\ InGroup /\ last.prompt = "none"
\* How often the call looked the user id up.
LookupsOf(user_id) ==
    Cardinality({i \in 1..Len(last.lookups) : last.lookups[i] = user_id})
NeedsAdminNotices ==
    { "I need to be an admin to do this.",
      "You need to be an admin to do this.",
      "I need to be an admin and you need to be an admin to do this." }

\* C6: on the direct path in a group the function is called only if every
\* required party is an admin (is_bot: the bot; is_user: the user; is_both:
\* both).  A plain Member under is_user never gets the function called, is
\* looked up at most once, and, when the bot's record was retrieved and
\* only_owner is off, gets a "need to be an admin" notice.
C6_OnlyAdminsPass ==
    DirectGroupCall =>
        /\ Invoked =>
              /\ policy.is_bot => is_admin(last.bot)
              /\ policy.is_user => is_admin(last.member)
              /\ policy.is_both => is_admin(last.bot) /\ is_admin(last.member)
        /\ (policy.is_user /\ last.member = Member({})) =>
              /\ ~Invoked
              /\ LookupsOf(last.update.user) <= 1
              /\ (Resolved(last.bot) /\ ~policy.only_owner) =>
                    last.end.text \in NeedsAdminNotices

C6_Witness ==
    /\ DirectGroupCall /\ policy.is_user /\ ~policy.only_owner
    /\ last.member = Member({}) /\ is_admin(last.bot)
    /\ last.end.text = "You need to be an admin to do this."
    /\ LookupsOf(last.update.user) = 1

\* C7: with a non-empty permissions argument, on the direct path an Owner
\* user is never turned away over permissions the bot does not lack, and a
\* required bot lacking a flag always is turned away.
C7_OwnerExemptBotNever ==
    (DirectGroupCall /\ Resolved(last.bot) /\ Resolved(last.member)
        /\ policy.permissions.kind # "none") =>
        /\ (is_owner(last.member) /\ HoldsAll(last.bot, policy.permissions)) =>
              last.end.listed = << >>
        /\ ((policy.is_bot \/ policy.is_both)
              /\ ~HoldsAll(last.bot, policy.permissions)) => ~Invoked

\* C8: with only_owner, on the direct path in a group a user whose record is
\* not Owner never gets the function called, whatever the record's status
\* and flags; with both records retrieved the call ends as "owner only"
\* (the notice, or nothing under no_reply).
C8_OwnerOnly ==
    (DirectGroupCall /\ policy.only_owner
        /\ Resolved(last.member) /\ ~is_owner(last.member)) =>
        /\ ~Invoked
        /\ Resolved(last.bot) =>
              last.end = IF policy.no_reply THEN ReturnNone
                         ELSE Send("Only the chat owner can run this command.")

C8_Witness ==
    /\ DirectGroupCall /\ policy.only_owner /\ ~policy.no_reply
    /\ last.member = Administrator(Flags) /\ last.bot = Administrator(Flags)
    /\ last.end.text = "Only the chat owner can run this command."

\* C9: with only_dev, a user outside DEVS never gets the function called, in
\* a private chat or a group and whatever allow_pm is; the call issues no
\* challenge and looks nobody up.
C9_DevOnly ==
    (GuardCall /\ policy.only_dev /\ last.update.user \notin DEVS) =>
        /\ ~Invoked
        /\ last.lookups = << >>
        /\ last.prompt = "none" /\ last.token = 0 /\ last.entry = << >>
        /\ last.end = IF policy.no_reply THEN ReturnNone
                      ELSE Send("This command can only be used by the developers.")

C9_Witness ==
    /\ GuardCall /\ policy.only_dev /\ policy.allow_pm
    /\ IsPrivate(last.update.chat) /\ last.update.user \notin DEVS
    /\ last.end.text = "This command can only be used by the developers."

\* C10: in a private chat with only_dev off: under allow_pm the function is
\* called, with no lookup and no challenge; otherwise it is not called and
\* the call ends with the "can't be used in PM" notice (nothing under
\* no_reply).
C10_PrivateChat ==
    (GuardCall /\ IsPrivate(last.update.chat) /\ ~policy.only_dev) =>
        /\ last.lookups = << >>
        /\ last.prompt = "none" /\ last.token = 0 /\ last.entry = << >>
        /\ policy.allow_pm => Invoked /\ last.end.text = ""
        /\ ~policy.allow_pm =>
              last.end = IF policy.no_reply THEN ReturnNone
                         ELSE Send("This command can't be used in PM.")

C10_Witness ==
    /\ GuardCall /\ IsPrivate(last.update.chat) /\ ~policy.only_dev
    /\ policy.allow_pm /\ policy.is_both /\ policy.only_owner
    /\ Invoked /\ last.lookups = << >>

\* A guard call that failed: the function was not called, no challenge was
\* issued and no exception left the handler.
GuardFailure ==
    GuardCall /\ ~Invoked /\ last.prompt = "none" /\ last.end.raised = "none"

\* C11: no_reply governs every failure of the guard: under no_reply no
\* failure sends a notice, without it every failure sends one; the function
\* is not called either way.
C11_NoReplyGovernsEveryFailure ==
    GuardFailure =>
        /\ policy.no_reply => last.end.text = ""
        /\ ~policy.no_reply => last.end.text # ""

\* C12: on a successful resolution the stored function is called with the
\* context it was deferred with: the update of the original command, not the
\* callback query's.
C12_CalledWithOriginalContext ==
    (VerifyCall /\ Invoked) =>
        last.called_with = Message(last.entry[1].message[1],
                                   last.entry[1].message[2], ANONYMOUS_ADMIN)

\* The function's exception leaves the handler unchanged and no notice is
\* sent for it.
FailureUnchanged ==
    (Invoked /\ last.func_outcome = "raises") =>
        /\ last.end.raised = "ActionError"
        /\ last.end.text = "" /\ last.end.listed = << >>
        /\ last.returned = "nothing"

\* C13 (as stated): on every path that calls the function (private chat,
\* all checks passed, challenge resolved) its result or its exception
\* reaches the handler's caller unchanged and no notice is sent.
C13_ResultOrFailureUnchanged ==
    /\ FailureUnchanged
    /\ (Invoked /\ last.func_outcome = "returns") =>
          /\ last.end.raised = "none" /\ last.end.text = ""
          /\ last.returned = "result"

\* C13 (amended): the exception is unchanged on every path; the result is
\* returned by the guard, while the resolver returns None.
C13_FailureUnchangedResultFromGuard ==
    /\ FailureUnchanged
    /\ (Invoked /\ last.func_outcome = "returns") =>
          /\ last.end.raised = "none" /\ last.end.text = ""
          /\ GuardCall => last.returned = "result"
          /\ VerifyCall => last.returned = "None"

C13_Witness ==
    /\ VerifyCall /\ Invoked /\ last.func_outcome = "raises"
    /\ last.end.raised = "ActionError" /\ last.prompt = "deleted"

\* ------------------------------- verify_anonymous_admin, concurrent calls
\* The event loop runs one coroutine at a time and switches only at an
\* await: each action below is the code between two awaits of one call.
\* Challenges stored per token, at most.
MaxIssues == 2

\* Lines 160-161 of wrapped(): the challenge is stored; the reply is awaited
\* after it.
Issue(m) ==
    LET token == Token(m[1], m[2]) IN
    /\ tally[token].issued < MaxIssues
    /\ bot_data' = Store(bot_data, token, Pending(m, policy.permissions))
    /\ tally' = [tally EXCEPT ![token].issued = @ + 1]
    /\ UNCHANGED <<policy, prompts, spent, update, last, units>>
    /\ UNCHANGED cacheVars

Issues == \E m \in UnitMessages : Issue(m)

\* The dispatcher starts a call for a press on a prompt that was sent.
Press(u, m, user) ==
    /\ units[u].pc = "idle"
    /\ tally[Token(m[1], m[2])].issued > 0
    /\ units' = [units EXCEPT ![u] =
                    [NoUnit EXCEPT !.pc = "start",
                                   !.update = Callback(m[1], m[2], user)]]
    /\ UNCHANGED <<tally, guardVars>>
    /\ UNCHANGED cacheVars

Presses == \E u \in Units, m \in UnitMessages, user \in Clickers : Press(u, m, user)

\* Lines 29-37: the key is built and popped with no await in between; the
\* call is then suspended in the first lookup. A missing key raises.
PopStep(u) ==
    LET unit == units[u]
        token == Token(unit.update.chat, unit.update.message_id)
    IN
    /\ unit.pc = "start"
    /\ IF ~PopFinds(bot_data, token)
       THEN /\ units' = [units EXCEPT ![u] =
                           [NoUnit EXCEPT !.pc = "done", !.end = Raise("KeyError")]]
            /\ UNCHANGED <<bot_data, tally>>
       ELSE /\ bot_data' = Pop(bot_data, token)
            /\ tally' = [tally EXCEPT ![token].popped = @ + 1]
            /\ units' = [units EXCEPT ![u] =
                           [unit EXCEPT !.pc = "member",
                                        !.entry = <<bot_data[token]>>]]
    /\ UNCHANGED <<policy, prompts, spent, update, last>>
    /\ UNCHANGED cacheVars

PopSteps == \E u \in Units : PopStep(u)

\* Line 37 returns: the clicking user's record; line 38 is awaited next.
MemberStep(u, result) ==
    LET unit == units[u] IN
    /\ unit.pc = "member"
    /\ units' = [units EXCEPT ![u] =
                    IF result = Raised
                    THEN [NoUnit EXCEPT !.pc = "done", !.end = Raise("TransportError")]
                    ELSE [unit EXCEPT !.pc = "bot", !.member = result]]
    /\ UNCHANGED <<tally, guardVars>>
    /\ UNCHANGED cacheVars

MemberSteps == \E u \in Units, result \in LookupResults : MemberStep(u, result)

\* Line 38 returns; lines 41-74 run to the alert, or to the await of
\* delete_message at line 77.
BotStep(u, result) ==
    LET unit == units[u]
        end == VerifyPath(unit.entry[1].permissions, unit.update.user,
                          unit.member, result).end
    IN
    /\ unit.pc = "bot"
    /\ units' = [units EXCEPT ![u] =
                    IF end.invoked = 1
                    THEN [unit EXCEPT !.pc = "delete", !.member = NotLookedUp]
                    ELSE [NoUnit EXCEPT !.pc = "done", !.end = end]]
    /\ UNCHANGED <<tally, guardVars>>
    /\ UNCHANGED cacheVars

BotSteps == \E u \in Units, result \in BotResults : BotStep(u, result)

\* Line 77 returns or raises; line 78 is awaited next.
DeleteStep(u, deletion) ==
    LET unit == units[u]
        end == DeleteThenCall(CallFunc, deletion)
    IN
    /\ unit.pc = "delete"
    /\ units' = [units EXCEPT ![u] =
                    IF end.invoked = 1 THEN [unit EXCEPT !.pc = "call"]
                    ELSE [NoUnit EXCEPT !.pc = "done", !.end = end]]
    /\ UNCHANGED <<tally, guardVars>>
    /\ UNCHANGED cacheVars

DeleteSteps == \E u \in Units, deletion \in DeleteResults : DeleteStep(u, deletion)

\* Line 78: the stored function runs.
CallStep(u, outcome) ==
    LET unit == units[u]
        token == Token(unit.update.chat, unit.update.message_id)
    IN
    /\ unit.pc = "call"
    /\ tally' = [tally EXCEPT ![token].invoked = @ + 1]
    /\ units' = [units EXCEPT ![u] =
                    [NoUnit EXCEPT !.pc = "done",
                                   !.end = VerifyRaise(CallFunc, outcome)]]
    /\ UNCHANGED guardVars
    /\ UNCHANGED cacheVars

CallSteps == \E u \in Units, outcome \in FuncOutcomes : CallStep(u, outcome)

\* The call is over; the unit can take another press.
UnitReturns ==
    \E u \in Units :
        /\ units[u].pc = "done"
        /\ units' = [units EXCEPT ![u] = NoUnit]
        /\ UNCHANGED <<tally, guardVars>>
        /\ UNCHANGED cacheVars

InitUnits ==
    /\ policy = DefaultPolicy
    /\ GuardIdle
    /\ CacheIdle
    /\ UnitsIdle
    /\ admins = OwnersOnly

NextUnits ==
    \/ Issues \/ Presses \/ PopSteps \/ MemberSteps \/ BotSteps
    \/ DeleteSteps \/ CallSteps \/ UnitReturns

SpecUnits == InitUnits /\ [][NextUnits]_vars

\* ------------------------------------------------------- cache.py, claims
LoadCall == ret.op = "load"
AskCall == ret.op \in {"is_admin", "is_owner"}

\* The call found an item of its chat that had not expired.
FoundUnexpired == ret.stored >= 0 /\ now < ret.stored + ttl

\* The value the cache holds for the call's chat after the call.
Held == admin_cache[Find(admin_cache, ret.chat_id)].value

\* A non-forced lookup of the same chat made right after the call.
LookupAgain ==
    load_admin_cache(admin_cache, now, ret.chat_id, FALSE, "ok",
                     Actual(ret.chat_id))

\* C14: a non-forced lookup of an unexpired entry returns the cached record
\* without a fetch; a lookup on a miss or with force_reload makes exactly one
\* fetch and, when it succeeds, stores the fetched list, so that a non-forced
\* lookup right after it is a hit that returns the same record.
C14_HitNoFetchMissFetchesOnce ==
    LoadCall =>
        IF ~ret.force_reload /\ FoundUnexpired
        THEN /\ ret.fetches = 0 /\ ret.ok
             /\ ret.value = Held
        ELSE /\ ret.fetches = 1
             /\ ret.fetch = "ok" =>
                  /\ ret.ok
                  /\ ret.value = AdminCache(ret.chat_id, Actual(ret.chat_id), TRUE)
                  /\ Contains(admin_cache, now, ret.chat_id)
                  /\ LookupAgain.fetches = 0
                  /\ LookupAgain.value = ret.value

\* A hit served a list that is no longer the chat's; it was not fetched.
C14_Witness ==
    /\ LoadCall /\ ~ret.force_reload /\ FoundUnexpired
    /\ ret.fetches = 0
    /\ ret.value.user_info # Actual(ret.chat_id)

\* An entry stored at t0 is served to non-forced lookups at t < t0 + T and
\* fetched again at t >= t0 + T; is_admin and is_owner answer true only from
\* an entry younger than T.
ServedFor(T) ==
    /\ (LoadCall /\ ~ret.force_reload /\ ret.stored >= 0) =>
          /\ now < ret.stored + T => ret.fetches = 0
          /\ now >= ret.stored + T => ret.fetches = 1
    /\ (AskCall /\ ret.answer) => (ret.stored >= 0 /\ now < ret.stored + T)

\* C15 (as stated): the cache's TTL is 20 minutes.
C15_ServedTwentyMinutes == ServedFor(20 * 60)

\* C15 (amended): the cache's TTL is 15 minutes; an expired entry is not
\* visible to load_admin_cache, is_admin or is_owner.
C15_ServedFifteenMinutes == ServedFor(15 * 60)

C15_Witness ==
    /\ LoadCall /\ ~ret.force_reload /\ ret.stored >= 0
    /\ now >= ret.stored + 15 * 60
    /\ ret.fetches = 1 /\ ret.fetch = "ok"
    /\ Contains(admin_cache, now, ret.chat_id)

\* The call stored a chat the cache did not hold.
StoredNewKey == LoadCall /\ ret.fetches = 1 /\ ret.ok /\ ret.stored = -1

\* C16 (as stated): the cache never holds more than 512 unexpired entries;
\* storing a new key when 512 are held evicts exactly the least recently
\* used one.
C16_AtMost512 ==
    /\ Len(Expire(admin_cache, now)) <= 512
    /\ (StoredNewKey /\ ret.live = 512) => ret.evicted = {ret.lru}

\* C16 (amended): the bound is 1000 entries: storing a new key when 1000
\* unexpired entries are held evicts exactly the least recently used one,
\* and below 1000 nothing is evicted.
C16_AtMost1000 ==
    /\ Len(Expire(admin_cache, now)) <= 1000
    /\ (StoredNewKey /\ ret.live = 1000) => ret.evicted = {ret.lru}
    /\ (StoredNewKey /\ ret.live < 1000) => ret.evicted = {}

\* The cache was full and chat -1, loaded first, had been looked up again:
\* chat -2 was evicted and chat -1 kept.
C16_Witness ==
    /\ StoredNewKey /\ ret.live = 1000
    /\ ret.evicted = {-2}
    /\ -1 \in Keys(admin_cache)
    /\ Len(admin_cache) = 1000

\* C17: a failed fetch is classified: not-found/forbidden gives a not-found
\* result and stores nothing; any other failure is raised to the caller as a
\* transport error; the fetch is made once.
C17_FetchFailuresClassified ==
    (LoadCall /\ ret.fetches > 0) =>
        /\ ret.fetches = 1
        /\ ret.fetch = "BadRequest" =>
              /\ ~ret.ok /\ ret.raised = "none"
              /\ ret.value.user_info = << >>
        /\ ret.fetch = "NetworkError" => ret.raised = "NetworkError"

\* The user's status in the chat, as the chat's administrators have it.
ActualStatus(chat_id, user_id) ==
    LET list == Actual(chat_id)
        hits == {i \in 1..Len(list) : list[i].user = user_id}
    IN  IF hits = {} THEN "member" ELSE list[CHOOSE i \in hits : TRUE].status

\* C18: is_admin is true exactly for an administrator or the owner of the
\* chat and is_owner exactly for the owner, whatever the cache holds.
C18_ChecksFollowMembership ==
    /\ ret.op = "is_admin" =>
          (ret.answer <=>
             ActualStatus(ret.chat_id, ret.user_id) \in {"administrator", "creator"})
    /\ ret.op = "is_owner" =>
          (ret.answer <=> ActualStatus(ret.chat_id, ret.user_id) = "creator")

\* C19: for an Administrator record the missing list is the names of the
\* permissions argument the record lacks, in the argument's order and with
\* its multiplicity, none for an absent argument; the notice about the
\* record lists exactly those, as their phrases.
C19_NoticeListsLackingFlags ==
    /\ (GuardCall /\ last.end.text = "I don't have permission to"
          /\ last.bot.status = "administrator") =>
          last.end.listed = Phrases(Lacking(last.bot, policy.permissions))
    /\ (GuardCall /\ last.end.text = "You don't have permission to"
          /\ last.member.status = "administrator") =>
          last.end.listed = Phrases(Lacking(last.member, policy.permissions))
    /\ (VerifyCall /\ last.end.text = "You do not have the required permissions:"
          /\ last.member.status = "administrator") =>
          last.end.listed = Phrases(Lacking(last.member, last.entry[1].permissions))

\* C20: the token is collision-free: different (chat, message) pairs have
\* different tokens, so every stored challenge sits under the token of its
\* own message and a button press resolves only a challenge that was issued
\* for the pressed prompt's chat and message.
C20_TokenCollisionFree ==
    /\ \A t \in DOMAIN bot_data :
          t = Token(bot_data[t].message[1], bot_data[t].message[2])
    /\ (VerifyCall /\ last.entry # << >>) =>
          last.entry[1].message = <<last.update.chat, last.update.message_id>>

\* The call was a load whose fetch failed.
FetchFailed == LoadCall /\ ret.fetches = 1 /\ ~ret.ok

\* C26: a failed fetch leaves the cache as it was: the step of a load whose
\* fetch raises changes no item, no placeholder (cached=False, empty list) is
\* ever held, and an unexpired entry the chat had is still served to a
\* non-forced lookup made right after.
C26_FailedFetchLeavesCache ==
    /\ [](\A i \in 1..Len(admin_cache) :
             /\ admin_cache[i].value.cached
             /\ admin_cache[i].value.user_info # << >>)
    /\ [](FetchFailed =>
             /\ ret.value = AdminCache(ret.chat_id, << >>, FALSE)
             /\ FoundUnexpired =>
                  /\ LookupAgain.fetches = 0
                  /\ LookupAgain.value = Held)
    /\ [][FetchFailed' => admin_cache' = admin_cache]_vars

\* A forced reload failed while the chat had an unexpired entry, which is
\* still in the cache.
C26_Witness ==
    /\ FetchFailed /\ ret.force_reload /\ FoundUnexpired
    /\ Contains(admin_cache, now, ret.chat_id)
    /\ Held.cached

\* C22: when the lookup of the bot or of the user gives None the function is
\* not called; once both lookups have returned the guard ends with "Could
\* not retrieve member information." and the resolver with "Failed to get
\* member", whatever the policy: no admin or permission check speaks for a
\* missing record.
C22_MissingRecordNeverRuns ==
    /\ (GuardCall /\ (last.bot = NoMember \/ last.member = NoMember)) =>
          /\ ~Invoked
          /\ last.member # Raised =>
                last.end = Send("Could not retrieve member information.")
    /\ (VerifyCall /\ (last.bot = NoMember \/ last.member = NoMember)) =>
          /\ ~Invoked
          /\ last.bot # Raised => last.end = Send("Failed to get member")

\* The user's record is missing, the bot is an administrator and the policy
\* asks for nothing else that could fail.
C22_Witness ==
    /\ GuardCall /\ last.member = NoMember /\ is_admin(last.bot)
    /\ ~policy.only_owner /\ ~policy.is_user /\ ~policy.is_both
    /\ last.end = Send("Could not retrieve member information.")

\* The steps of wrapped() that can end a call, by their conditions.
PrivateStep == IsPrivate(last.update.chat) /\ ~policy.only_dev
DevStep == policy.only_dev /\ last.update.user \notin DEVS
DeferralStep == last.update.user = ANONYMOUS_ADMIN /\ ~policy.no_reply
LookupStep == ~Resolved(last.bot) \/ ~Resolved(last.member)
OwnerStep == policy.only_owner /\ ~is_owner(last.member)

\* What the call did besides ending: lookups, a stored challenge, a prompt.
NoLookup == last.lookups = << >> /\ last.bot = NotLookedUp /\ last.member = NotLookedUp
NoChallenge == last.prompt = "none" /\ last.token = 0 /\ last.entry = << >>

\* The notices of the steps before the admin and permission checks.
EarlierNotices ==
    { "This command can't be used in PM.",
      "This command can only be used by the developers.",
      "Please verify that you are an admin to perform this action.",
      "Could not retrieve member information.",
      "Only the chat owner can run this command." }

\* C23: a call of the guard ends at the first step, in the order private
\* chat, only_dev, deferral of an anonymous sender, lookups, only_owner,
\* admin and permission checks, whose condition holds, with that step's one
\* outcome; nothing of a later step (lookup, challenge, notice) happens.
C23_FirstStepDecides ==
    GuardCall =>
        /\ Invoked => (last.end.text = "" /\ NoChallenge)
        /\ last.prompt = "sent" => (~Invoked /\ NoLookup)
        /\ IF PrivateStep
           THEN /\ NoLookup /\ NoChallenge
                /\ Invoked <=> policy.allow_pm
                /\ ~Invoked =>
                      last.end = IF policy.no_reply THEN ReturnNone
                                 ELSE Send("This command can't be used in PM.")
           ELSE IF DevStep
           THEN /\ NoLookup /\ NoChallenge /\ ~Invoked
                /\ last.end = IF policy.no_reply THEN ReturnNone
                              ELSE Send("This command can only be used by the developers.")
           ELSE IF DeferralStep
           THEN Deferred
           ELSE /\ NoChallenge /\ last.lookups # << >>
                /\ last.lookups[1] = BotId
                /\ IF LookupStep
                   THEN /\ ~Invoked
                        /\ \/ last.end = Send("Could not retrieve member information.")
                           \/ last.end = Raise("TransportError")
                   ELSE IF OwnerStep
                   THEN /\ ~Invoked
                        /\ last.end = IF policy.no_reply THEN ReturnNone
                                      ELSE Send("Only the chat owner can run this command.")
                   ELSE last.end.text \notin EarlierNotices

\* An anonymous sender outside DEVS under only_dev and only_owner: the call
\* ends at the developer check, before any challenge or lookup.
C23_Witness ==
    /\ GuardCall /\ InGroup /\ last.update.user = ANONYMOUS_ADMIN
    /\ policy.only_dev /\ policy.only_owner /\ ~policy.no_reply
    /\ last.end = Send("This command can only be used by the developers.")
    /\ NoLookup /\ NoChallenge

\* C24: the prompt is deleted before the stored function is called: every
\* call of the function by the resolver has the prompt deleted, and when the
\* deletion fails the function is not called and the deletion's exception
\* leaves the handler.
C24_DeletedBeforeCalled ==
    VerifyCall =>
        /\ Invoked => last.prompt = "deleted"
        /\ last.prompt = "delete failed" =>
              /\ ~Invoked /\ last.func_outcome = "not called"
              /\ last.end.raised = "BadRequest"
              /\ last.called_with = NoUpdate

\* The checks passed and the deletion failed: the prompt is still on screen,
\* the entry is gone.
C24_Witness ==
    /\ VerifyCall /\ last.prompt = "delete failed" /\ ~Invoked
    /\ is_admin(last.member) /\ is_admin(last.bot)
    /\ prompts[<<last.update.chat, last.update.message_id>>] > 0
    /\ last.token \notin DOMAIN bot_data

\* C25: under only_owner the function is never called for a non-owner in a
\* group, on the direct path or after a challenge: the user whose record was
\* looked up (the sender, or the user who pressed the button) is the Owner.
C25_OwnerOnlyOnEveryPath ==
    ((GuardCall \/ VerifyCall) /\ InGroup /\ policy.only_owner /\ Invoked) =>
        is_owner(last.member)

\* The calls that hold a popped entry of token t and have not ended.
Holders(t) ==
    {u \in Units : /\ units[u].entry # << >>
                   /\ Token(units[u].update.chat, units[u].update.message_id) = t}

\* C21: under every interleaving of concurrent calls of the resolver an
\* entry is handed to one call only: per token no more entries are popped
\* than challenges were stored, the function is not called more often than
\* entries were popped, and the calls in progress that hold an entry are no
\* more than the challenges stored and not yet used to call the function.
C21_EntryPoppedOnce ==
    \A t \in Tokens :
        /\ tally[t].popped <= tally[t].issued
        /\ tally[t].invoked <= tally[t].popped
        /\ Cardinality(Holders(t)) + tally[t].invoked <= tally[t].issued

\* One challenge was stored and two presses on it are handled at the same
\* time: one call popped the entry and is suspended in delete_message, the
\* other ran meanwhile and found no entry.
C21_Witness ==
    \E u, v \in Units :
        /\ units[u].pc = "delete" /\ Holders(-123) = {u}
        /\ units[v].pc = "done" /\ units[v].end = Raise("KeyError")
        /\ tally[-123] = [issued |-> 1, popped |-> 1, invoked |-> 0]

====
